---- MODULE Spec2Model ----
(***************************************************************************)
(* Model of apps/python-api/src/main.py: a FastAPI application with two    *)
(* GET routes, "/" (root) and "/health" (health).  The environment the     *)
(* handlers observe (the filesystem, the machine's hostname, whether the   *)
(* hostname can be resolved) changes under them; requests are handled      *)
(* concurrently, one statement of a handler at a time.                     *)
(***************************************************************************)
EXTENDS Integers, Sequences, FiniteSets, TLC

\* ---------------------------------------------------------------- bounds
\* Number of requests the process receives in one run.
MaxReqs == 2

Reqs == 1..MaxReqs

\* ------------------------------------------------------------ environment
VaultPath == "/vault/secrets/config"
\* A second path, the one the test suite writes to (tmp_path / "config").
OtherPath == "/tmp/config"
Paths == {VaultPath, OtherPath}
Contents == {"", "key=value"}
\* What the kernel may hold as the node name; the empty name is legal.
Hostnames == {"", "python-api-0", "python-api-1"}
Routes == {"/", "/health"}

VARIABLES
    fs,              \* the filesystem: a function from the existing paths to their contents
    hostname,        \* the machine's hostname
    resolvable,      \* whether socket.gethostname() succeeds right now
    log,             \* the lines emitted through main.py's logger, in order
    pc,              \* per request: the statement its handler is at
    route,           \* per arrived request: the path it asked for
    vault_injected,  \* per root request: the handler's local variable, once assigned
    raised,          \* the requests whose handler ended by raising
    resp,            \* per answered request: the HTTP response
    fsStable,        \* history: the requests that arrived since the filesystem last changed
    hostStable       \* history: the requests that arrived since the hostname state last changed

env == <<fs, hostname, resolvable>>
vars == <<fs, hostname, resolvable, log, pc, route, vault_injected, raised, resp,
          fsStable, hostStable>>

\* f with key k bound to v (k added to the domain when new).
Put(f, k, v) == [x \in DOMAIN f \cup {k} |-> IF x = k THEN v ELSE f[x]]
\* f without key k.
Drop(f, k) == [x \in DOMAIN f \ {k} |-> f[x]]
Empty == [x \in {} |-> FALSE]

\* ---------------------------------------------------------------- logging
\* logging.basicConfig(level=logging.INFO, ...): the root logger's threshold.
LevelNo(level) ==
    CASE level = "DEBUG" -> 10
      [] level = "INFO" -> 20
      [] level = "WARNING" -> 30
      [] level = "ERROR" -> 40
basicConfigLevel == "INFO"

\* logger = logging.getLogger(__name__): no level of its own, so the root's applies.
isEnabledFor(level) == LevelNo(level) >= LevelNo(basicConfigLevel)

\* One emitted line: the format's levelname and message (asctime left out).
LogRecord(level, message) == [level |-> level, message |-> message]

\* logger.<level>(message): the log after the call.
logger_log(l, level, message) ==
    IF isEnabledFor(level) THEN Append(l, LogRecord(level, message)) ELSE l

\* ------------------------------------------------------ library functions
\* A faulty variant: a path counts only when the file holds something.
os_path_exists_nonempty(path) == path \in DOMAIN fs /\ fs[path] # ""
\* os.path.exists(path): whether the path is there, whatever it holds.
os_path_exists(path) == path \in DOMAIN fs

\* ----------------------------------------------------------- the handlers
\* Faulty variants: another service's constants; a hard-coded host.
root_body_other_service(host, injected) ==
    [service |-> "node-api", message |-> "Hello from Node!",
     host |-> host, vault_injected |-> injected]
root_body_fixed_host(host, injected) ==
    [service |-> "python-api", message |-> "Hello from Python!",
     host |-> "localhost", vault_injected |-> injected]
\* The dict root() returns (lines 19-24).
root_body(host, injected) ==
    [service |-> "python-api", message |-> "Hello from Python!",
     host |-> host, vault_injected |-> injected]

\* A faulty variant: a second key in the health payload.
health_body_extra == [status |-> "healthy", service |-> "python-api"]
\* The dict health() returns (line 28).
health_body == [status |-> "healthy"]

\* FastAPI's answer for a handler that returned a dict: 200 with the dict as JSON.
JSONResponse(body) == [status |-> 200, body |-> body]
\* The framework's answer for a handler that raised: a generic 500.
ServerError == [status |-> 500, body |-> [error |-> "Internal Server Error"]]

Init ==
    /\ fs \in UNION {[S -> Contents] : S \in SUBSET Paths}
    /\ hostname \in Hostnames
    /\ resolvable \in BOOLEAN
    /\ log = <<>>
    /\ pc = [r \in Reqs |-> "idle"]
    /\ route = Empty
    /\ vault_injected = Empty
    /\ raised = {}
    /\ resp = Empty
    /\ fsStable = {}
    /\ hostStable = {}

\* A GET request for path arrives and is routed to its handler.  Requests are
\* numbered in order of arrival.
Arrive(r, path) ==
    /\ pc[r] = "idle"
    /\ \A q \in Reqs : q < r => pc[q] # "idle"
    /\ pc' = [pc EXCEPT ![r] = IF path = "/" THEN "log" ELSE "health"]
    /\ route' = Put(route, r, path)
    /\ fsStable' = fsStable \cup {r}
    /\ hostStable' = hostStable \cup {r}
    /\ UNCHANGED <<fs, hostname, resolvable, log, vault_injected, raised, resp>>

\* A faulty variant: the line logged at DEBUG, below the configured threshold.
root_log_debug(r) ==
    /\ pc[r] = "log"
    /\ log' = logger_log(log, "DEBUG", "Root endpoint called")
    /\ pc' = [pc EXCEPT ![r] = "exists"]
    /\ UNCHANGED <<fs, hostname, resolvable, route, vault_injected, raised, resp,
                   fsStable, hostStable>>
\* root(), line 17: logger.info("Root endpoint called")
root_log(r) ==
    /\ pc[r] = "log"
    /\ log' = logger_log(log, "INFO", "Root endpoint called")
    /\ pc' = [pc EXCEPT ![r] = "exists"]
    /\ UNCHANGED <<fs, hostname, resolvable, route, vault_injected, raised, resp,
                   fsStable, hostStable>>

\* A faulty variant: the check leaves the path behind (opened for append).
root_exists_touch(r) ==
    /\ pc[r] = "exists"
    /\ vault_injected' = Put(vault_injected, r, os_path_exists(VaultPath))
    /\ fs' = IF VaultPath \in DOMAIN fs THEN fs ELSE Put(fs, VaultPath, "")
    /\ pc' = [pc EXCEPT ![r] = "return"]
    /\ UNCHANGED <<hostname, resolvable, log, route, raised, resp,
                   fsStable, hostStable>>
\* A faulty variant: the first request's result is kept for all later ones.
root_exists_cached(r) ==
    /\ pc[r] = "exists"
    /\ vault_injected' =
          Put(vault_injected, r,
              IF DOMAIN vault_injected # {}
              THEN vault_injected[CHOOSE q \in DOMAIN vault_injected : TRUE]
              ELSE os_path_exists(VaultPath))
    /\ pc' = [pc EXCEPT ![r] = "return"]
    /\ UNCHANGED <<fs, hostname, resolvable, log, route, raised, resp,
                   fsStable, hostStable>>
\* root(), line 18: vault_injected = os.path.exists("/vault/secrets/config")
root_exists(r) ==
    /\ pc[r] = "exists"
    /\ vault_injected' = Put(vault_injected, r, os_path_exists(VaultPath))
    /\ pc' = [pc EXCEPT ![r] = "return"]
    /\ UNCHANGED <<fs, hostname, resolvable, log, route, raised, resp,
                   fsStable, hostStable>>

\* A faulty variant: the OSError is caught and a fallback host returned.
root_return_fallback(r) ==
    /\ pc[r] = "return"
    /\ resp' = Put(resp, r, JSONResponse(root_body(IF resolvable THEN hostname ELSE "unknown",
                                                   vault_injected[r])))
    /\ pc' = [pc EXCEPT ![r] = "done"]
    /\ UNCHANGED <<fs, hostname, resolvable, log, route, vault_injected, raised,
                   fsStable, hostStable>>
\* A faulty variant: a shared in-flight flag turns away a request that finds
\* another one between its statements.
root_return_busy(r) ==
    /\ pc[r] = "return"
    /\ IF resolvable /\ \A q \in Reqs \ {r} : pc[q] \in {"idle", "done"}
       THEN /\ resp' = Put(resp, r, JSONResponse(root_body(hostname, vault_injected[r])))
            /\ raised' = raised
       ELSE /\ resp' = Put(resp, r, ServerError)
            /\ raised' = raised \cup {r}
    /\ pc' = [pc EXCEPT ![r] = "done"]
    /\ UNCHANGED <<fs, hostname, resolvable, log, route, vault_injected,
                   fsStable, hostStable>>
\* root(), lines 19-24: the dict is built, socket.gethostname() called while it
\* is; the call is not inside a try, so an OSError leaves the handler and the
\* framework answers 500.
root_return(r) ==
    /\ pc[r] = "return"
    /\ IF resolvable
       THEN /\ resp' = Put(resp, r, JSONResponse(root_body(hostname, vault_injected[r])))
            /\ raised' = raised
       ELSE /\ resp' = Put(resp, r, ServerError)
            /\ raised' = raised \cup {r}
    /\ pc' = [pc EXCEPT ![r] = "done"]
    /\ UNCHANGED <<fs, hostname, resolvable, log, route, vault_injected,
                   fsStable, hostStable>>

\* A faulty variant: health() logs its call too.
health_logging(r) ==
    /\ pc[r] = "health"
    /\ log' = logger_log(log, "INFO", "Health endpoint called")
    /\ resp' = Put(resp, r, JSONResponse(health_body))
    /\ pc' = [pc EXCEPT ![r] = "done"]
    /\ UNCHANGED <<fs, hostname, resolvable, route, vault_injected, raised,
                   fsStable, hostStable>>
\* health(), line 28: return {"status": "healthy"}
health(r) ==
    /\ pc[r] = "health"
    /\ resp' = Put(resp, r, JSONResponse(health_body))
    /\ pc' = [pc EXCEPT ![r] = "done"]
    /\ UNCHANGED <<fs, hostname, resolvable, log, route, vault_injected, raised,
                   fsStable, hostStable>>

\* ------------------------------------------- the environment's own steps
\* The sidecar (or anyone) writes content c at path p: creation or rewrite.
WriteFile(p, c) ==
    /\ IF p \in DOMAIN fs THEN fs[p] # c ELSE TRUE
    /\ fs' = Put(fs, p, c)
    /\ fsStable' = {}
    /\ UNCHANGED <<hostname, resolvable, log, pc, route, vault_injected, raised, resp,
                   hostStable>>

RemoveFile(p) ==
    /\ p \in DOMAIN fs
    /\ fs' = Drop(fs, p)
    /\ fsStable' = {}
    /\ UNCHANGED <<hostname, resolvable, log, pc, route, vault_injected, raised, resp,
                   hostStable>>

SetHostname(h) ==
    /\ h # hostname
    /\ hostname' = h
    /\ hostStable' = {}
    /\ UNCHANGED <<fs, resolvable, log, pc, route, vault_injected, raised, resp,
                   fsStable>>

\* Hostname resolution starts or stops failing.
ToggleResolver ==
    /\ resolvable' = ~resolvable
    /\ hostStable' = {}
    /\ UNCHANGED <<fs, hostname, log, pc, route, vault_injected, raised, resp,
                   fsStable>>

Next ==
    \/ \E r \in Reqs, path \in Routes : Arrive(r, path)
    \/ \E r \in Reqs : root_log(r)
    \/ \E r \in Reqs : root_exists(r)
    \/ \E r \in Reqs : root_return(r)
    \/ \E r \in Reqs : health(r)
    \/ \E p \in Paths, c \in Contents : WriteFile(p, c)
    \/ \E p \in Paths : RemoveFile(p)
    \/ \E h \in Hostnames : SetHostname(h)
    \/ ToggleResolver

Spec == Init /\ [][Next]_vars

\* ------------------------------------------------------------- properties
Done == {r \in Reqs : pc[r] = "done"}
RootReqs == {r \in DOMAIN route : route[r] = "/"}
HealthReqs == {r \in DOMAIN route : route[r] = "/health"}
\* The requests answered 200 by root().
RootOk == (Done \cap RootReqs) \ raised
\* The requests that arrived since the environment last changed in any way.
EnvStable == fsStable \cap hostStable
\* Request r's handler takes the step from statement a to statement b.
Step(r, a, b) == pc[r] = a /\ pc'[r] = b
\* Request r's handler takes any step.
HandlerStep(r) == pc[r] \notin {"idle", "done"} /\ pc'[r] # pc[r]
RootKeys == {"service", "message", "host", "vault_injected"}

\* C1: every answered GET /health has status 200 and the body
\* {"status": "healthy"}, that one key and no other, whatever the environment
\* holds and however many requests came before.
C1_HealthFixed ==
    \A r \in Done \cap HealthReqs :
        /\ resp[r].status = 200
        /\ DOMAIN resp[r].body = {"status"}
        /\ resp[r].body.status = "healthy"

\* A health request answered after an earlier request, with the secret in
\* place and hostname resolution failing.
C1_Witness ==
    \E r \in Done \cap HealthReqs :
        r > 1 /\ VaultPath \in DOMAIN fs /\ ~resolvable

\* C2 as stated: every answered GET / has status 200 and a body with the four
\* keys, service "python-api" and message "Hello from Python!".
C2_Original ==
    \A r \in Done \cap RootReqs :
        /\ resp[r].status = 200
        /\ RootKeys \subseteq DOMAIN resp[r].body
        /\ resp[r].body.service = "python-api"
        /\ resp[r].body.message = "Hello from Python!"

\* C2 amended: every GET / during which hostname resolution did not fail is
\* answered 200 with a body of the four keys, service "python-api" and message
\* "Hello from Python!", whatever the filesystem holds.
C2_RootShape ==
    \A r \in RootOk :
        /\ resp[r].status = 200
        /\ RootKeys \subseteq DOMAIN resp[r].body
        /\ resp[r].body.service = "python-api"
        /\ resp[r].body.message = "Hello from Python!"

\* Root requests answered 200 on both sides of a filesystem state: one that
\* saw the secret and one that did not.
C2_Witness ==
    \E r, q \in RootOk :
        resp[r].body.vault_injected /\ ~resp[q].body.vault_injected

\* C3: the existence check of each GET / yields TRUE exactly when the secret
\* path exists at the moment of the check, and that value is the
\* vault_injected of the request's response: nothing is carried over from an
\* earlier request or from process start.
C3_VaultInjectedFresh ==
    /\ [][\A r \in Reqs :
             Step(r, "exists", "return") =>
                 vault_injected'[r] = (VaultPath \in DOMAIN fs)]_vars
    /\ [](\A r \in RootOk : resp[r].body.vault_injected = vault_injected[r])

\* Two answered root requests between which the secret came or went: the
\* earlier says one thing, the later the other, and the later agrees with the
\* filesystem as it is.
C3_Witness ==
    \E r, q \in RootOk :
        /\ r < q
        /\ resp[r].body.vault_injected # resp[q].body.vault_injected
        /\ resp[q].body.vault_injected = (VaultPath \in DOMAIN fs)
        /\ q \in fsStable

\* C4 as stated: the host of every 200 answer to GET / is the hostname as it
\* is when the handler resolves it, and is not the empty string.
C4_Original ==
    [][\A r \in Reqs :
          (Step(r, "return", "done") /\ resolvable) =>
              /\ resp'[r].body.host = hostname
              /\ resp'[r].body.host # ""]_vars

\* C4 amended: the host of every 200 answer to GET / is the hostname as it is
\* when the handler resolves it (so it is empty exactly when the machine's
\* hostname is), not a value resolved earlier.
C4_HostFresh ==
    [][\A r \in Reqs :
          (Step(r, "return", "done") /\ resolvable) =>
              resp'[r].body.host = hostname]_vars

\* Two answered root requests between which the hostname changed: each
\* carries the name of its own moment.
C4_Witness ==
    \E r, q \in RootOk :
        /\ r < q
        /\ resp[r].body.host # resp[q].body.host
        /\ resp[q].body.host = hostname
        /\ resp[q].body.host # ""

\* C5 as stated: two answered requests for the same path, with no change of
\* the filesystem since the earlier arrived, have identical responses.
C5_Original ==
    \A r, q \in Done \cap fsStable :
        route[r] = route[q] => resp[r] = resp[q]

\* C5 amended: two answered requests for the same path, with no change of the
\* filesystem or of the hostname state (the name, and whether it resolves)
\* since the earlier arrived, have identical responses.
C5_Idempotent ==
    \A r, q \in Done \cap EnvStable :
        route[r] = route[q] => resp[r] = resp[q]

\* Two root requests answered one after the other in an unchanged environment.
C5_Witness ==
    \E r, q \in Done \cap EnvStable \cap RootReqs : r # q

\* C6: a step of health() changes neither the log nor the filesystem nor the
\* hostname state, and answers the same fixed response in every environment.
C6_HealthPure ==
    [][\A r \in Reqs :
          Step(r, "health", "done") =>
              /\ log' = log
              /\ env' = env
              /\ resp'[r] = [status |-> 200, body |-> [status |-> "healthy"]]]_vars

\* Only health requests were handled, and the log is still empty.
C6_Witness ==
    /\ Done = Reqs
    /\ HealthReqs = Reqs
    /\ log = <<>>

\* C7: when hostname resolution fails as root() resolves, the handler raises
\* and the request is answered with the framework's 500, which carries no host
\* and none of the handler's body; a request whose own resolution succeeds is
\* answered 200 whatever happened to the requests before it.
C7_ResolutionFailure ==
    [][\A r \in Reqs :
          Step(r, "return", "done") =>
              IF resolvable
              THEN /\ resp'[r].status = 200
                   /\ r \notin raised'
              ELSE /\ resp'[r].status = 500
                   /\ DOMAIN resp'[r].body \cap RootKeys = {}
                   /\ r \in raised']_vars

\* A root request that failed at hostname resolution, and a later one answered 200.
C7_Witness ==
    \E r \in raised, q \in RootOk :
        /\ r < q
        /\ resp[r].status = 500
        /\ resp[q].status = 200

\* C8: the log holds one INFO line "Root endpoint called" for each GET /
\* whose handler has passed its first statement, and nothing else; a handler
\* that has not logged yet has neither checked the filesystem nor answered.
C8_OneLogLinePerRoot ==
    /\ Len(log) = Cardinality({r \in RootReqs : pc[r] # "log"})
    /\ \A i \in 1..Len(log) :
           log[i] = [level |-> "INFO", message |-> "Root endpoint called"]
    /\ \A r \in RootReqs :
           pc[r] = "log" => r \notin DOMAIN vault_injected /\ r \notin DOMAIN resp

\* Every request was a GET /, one of them failed at hostname resolution, and
\* each left its line.
C8_Witness ==
    /\ RootReqs = Reqs
    /\ raised # {}
    /\ Len(log) = MaxReqs

\* The response a request for path gets when it is handled alone, start to
\* end, in the environment as it is now.
Alone(path) ==
    IF path = "/health"
    THEN JSONResponse(health_body)
    ELSE IF resolvable
         THEN JSONResponse(root_body(hostname, os_path_exists(VaultPath)))
         ELSE ServerError

\* C9: whatever the interleaving of the handlers' steps, a request answered
\* while the environment has not changed since it arrived gets the response
\* it would get if handled alone.
C9_Independent ==
    \A r \in Done \cap EnvStable : resp[r] = Alone(route[r])

\* A request that arrived later was answered while an earlier root request
\* was still between its statements.
C9_Witness ==
    \E r \in RootReqs, q \in Done \cap EnvStable :
        r < q /\ pc[r] = "return"

\* C10: no step of a handler changes the filesystem, and the existence check
\* yields TRUE for the secret path whatever the file holds.
C10_ReadsExistenceOnly ==
    [][\A r \in Reqs :
          HandlerStep(r) =>
              /\ fs' = fs
              /\ Step(r, "exists", "return") =>
                     \A c \in Contents :
                         (VaultPath \in DOMAIN fs /\ fs[VaultPath] = c)
                             => vault_injected'[r] = TRUE]_vars

\* A root request answered vault_injected = true over an empty secret file.
C10_Witness ==
    \E r \in RootOk \cap fsStable :
        /\ VaultPath \in DOMAIN fs
        /\ fs[VaultPath] = ""
        /\ resp[r].body.vault_injected

====
